---- MODULE Spec2Model ----
(***************************************************************************)
(* A model of the write-throughput summariser of internal/mkbench          *)
(* (write.go): the loader that parses raw benchmark files into the tree    *)
(* workload -> day -> run -> raw run, the reducer that yields one ops/sec  *)
(* figure per raw run, and the incremental merge of newly computed         *)
(* per-day summaries with the previously written ("cooked") summary.       *)
(*                                                                         *)
(* Strings stay strings.  A relative path is the sequence of its           *)
(* components, so strings.Split(p, sep) is the sequence itself and         *)
(* filepath.Dir drops the last component.  Go's ordering of date strings   *)
(* is the position of the date in DayNames.  A write amplification is an   *)
(* integer number of hundredths.  os.ReadFile/os.WriteFile of the          *)
(* top-level summary are single atomic steps, and prettyJSON followed by   *)
(* json.Unmarshal gives back the value that was written.                   *)
(***************************************************************************)
EXTENDS Integers, Sequences, FiniteSets, TLC

VARIABLES
    dataFiles,        \* the raw files present under dataDir
    summaryFile,      \* summaryDir/summary.json: [exists, data]
    detailFiles,      \* summaryDir/*-summary.json: output path -> content
    pc,               \* per invocation slot: position inside parseWrite
    cursor,           \* per slot: how many entries walkDir has visited
    workloads,        \* per slot: writeLoader.workloads
    cooked,           \* per slot: writeLoader.cooked
    cookedSummaries,  \* per slot: writeLoader.cookedSummaries
    invocations,      \* number of parseWrite invocations started
    unchanged,        \* an invocation completed and no file was added since
    rerun,            \* per slot: started over an unchanged input directory
    skipped,          \* per slot: files skipped as previously cooked
    run,              \* reducer harness: the rawWriteRun under test
    input,            \* function harnesses: the argument of the call
    snapshots,        \* the snapshotList l of the snapshot list test
    result            \* harnesses: the results of the calls made so far

vars == <<dataFiles, summaryFile, detailFiles, pc, cursor, workloads, cooked,
          cookedSummaries, invocations, unchanged, rerun, skipped, run, input,
          snapshots, result>>

mainVars == <<dataFiles, summaryFile, detailFiles, pc, cursor, workloads, cooked,
              cookedSummaries, invocations, unchanged, rerun, skipped>>

harnessVars == <<run, input, snapshots, result>>

----------------------------------------------------------------------------
(* Bounds *)

MaxInvocations == 3

MaxFiles == 3

MaxConcInvocations == 3

MaxConcFiles == 2

MaxPoints == 3

MaxOps == 3

MaxCalls == 2

MaxWorkers == 2

MaxAdds == 3

MaxLines == 3

MaxSnapshots == 4

MaxSeqNum == 3

\* The slots in which an invocation of parseWrite runs.
Procs == {1, 2}

SeqProcs == {1}

----------------------------------------------------------------------------
(* Generic helpers *)

EmptyMap == <<>>

Range(s) == {s[i] : i \in DOMAIN s}

RECURSIVE Join(_, _)
Join(parts, sep) ==
    IF Len(parts) = 0 THEN ""
    ELSE IF Len(parts) = 1 THEN parts[1]
    ELSE parts[1] \o sep \o Join(Tail(parts), sep)

RECURSIVE SumOver(_, _)
SumOver(f, S) ==
    IF S = {} THEN 0
    ELSE LET x == CHOOSE y \in S : TRUE IN f[x] + SumOver(f, S \ {x})

RemoveAt(s, i) == SubSeq(s, 1, i - 1) \o SubSeq(s, i + 1, Len(s))

----------------------------------------------------------------------------
(* Constants of write.go *)

summaryFilename == "summary.json"

DayNames == <<"2023-01-01", "2023-01-02", "2023-01-03">>

DayRank(d) == CHOOSE i \in DOMAIN DayNames : DayNames[i] = d

\* Go's a < b on the date strings.
DateLess(a, b) == DayRank(a) < DayRank(b)

----------------------------------------------------------------------------
(* The raw input: files and their lines *)

\* A line that carries the BenchmarkRaw tag and that Sscanf parses fully.
Rec(name, ops, passed, elapsedMs, wamp) ==
    [tag |-> TRUE, scanOK |-> TRUE, name |-> name, opsSec |-> ops,
     passed |-> passed, elapsedMs |-> elapsedMs, size |-> 1024, levels |-> 3,
     writeAmp |-> wamp]

\* Free-form log noise: no BenchmarkRaw prefix.
Noise == [Rec("", 0, FALSE, 0, 0) EXCEPT !.tag = FALSE, !.scanOK = FALSE]

\* A tagged line on which Sscanf fails (e.g. a non-numeric ops/sec field).
BadScan == [Rec("", 0, FALSE, 0, 0) EXCEPT !.scanOK = FALSE]

\* A tagged line whose elapsed field time.ParseDuration rejects.
BadDur(name, ops, passed, wamp) == Rec(name, ops, passed, -1, wamp)

FileTable ==
    [f1 |-> [path |-> <<"2023-01-01", "pebble", "write", "w1", "r1", "a.log">>,
             lines |-> <<Rec("w1", 100, TRUE, 1500, 200),
                         Rec("w1", 120, TRUE, 2500, 210),
                         Rec("w1", 90, FALSE, 3500, 200)>>],
     f2 |-> [path |-> <<"2023-01-01", "pebble", "write", "w1", "r1", "b.log">>,
             lines |-> <<Rec("w1", 300, TRUE, 1000, 300),
                         Rec("w1", 301, TRUE, 2000, 301)>>],
     f3 |-> [path |-> <<"2023-01-02", "pebble", "write", "w1", "r1", "a.log">>,
             lines |-> <<Noise,
                         Rec("w1", 50, FALSE, 1000, 150),
                         Rec("w1", 60, FALSE, 2000, 160)>>],
     f4 |-> [path |-> <<"2023-01-03", "pebble", "write", "w1", "r1", "a.log">>,
             lines |-> <<Rec("w1", 70, TRUE, 1000, 100)>>],
     f5 |-> [path |-> <<"2023-01-01", "pebble", "write", "w2", "r1", "a.log">>,
             lines |-> <<BadScan,
                         BadDur("w2", 10, TRUE, 100),
                         Rec("w2", 20, TRUE, 1999, 125),
                         Rec("w2", 15, FALSE, 2999, 130)>>],
     f6 |-> [path |-> <<"2023-01-02", "pebble", "write", "w2", "r1", "a.log">>,
             lines |-> <<Rec("w2", 40, TRUE, 1000, 100),
                         Rec("w2", 45, FALSE, 2000, 110)>>],
     f7 |-> [path |-> <<"2023-01-01", "pebble", "write", "w1", "r1", "c.log">>,
             lines |-> <<Rec("w2", 80, TRUE, 1000, 100)>>]]

Files == DOMAIN FileTable

\* The files that appear while invocations are interleaved.
ConcFiles == {"f1", "f2", "f3", "f5"}

\* The order in which walkDir visits the files (lexical order of the paths).
WalkOrder == <<"f1", "f2", "f7", "f5", "f3", "f6", "f4">>

----------------------------------------------------------------------------
(* Run Reducer *)

Min(S) == CHOOSE x \in S : \A y \in S : x <= y

Max(S) == CHOOSE x \in S : \A y \in S : x >= y

\* Number of misclassified samples at threshold t.
Misclassified(pass, fail, t) ==
    Cardinality({i \in DOMAIN pass : pass[i] < t})
        + Cardinality({i \in DOMAIN fail : fail[i] >= t})

\* Scan of the candidates in ascending order, keeping the first best one.
RECURSIVE ScanCandidates(_, _, _, _)
ScanCandidates(pass, fail, todo, best) ==
    IF todo = {} THEN best
    ELSE LET t == Min(todo)
             better == Misclassified(pass, fail, t) < Misclassified(pass, fail, best)
         IN ScanCandidates(pass, fail, todo \ {t}, IF better THEN t ELSE best)

findOptimalSplit(pass, fail) ==
    IF Len(fail) = 0 THEN Min(Range(pass))
    ELSE IF Len(pass) = 0 THEN Max(Range(fail)) + 1
    ELSE LET cands == Range(pass) \cup Range(fail)
         IN ScanCandidates(pass, fail, cands \ {Min(cands)}, Min(cands))

\* The partition of opsPerSecSplit: the ops/sec of the passing and of the
\* failing datapoints, each in datapoint order.
PartitionSwapped(points) ==
    [passes |-> SelectSeq(points, LAMBDA p : ~p.passed),
     fails |-> SelectSeq(points, LAMBDA p : p.passed)]

Partition(points) ==
    [passes |-> SelectSeq(points, LAMBDA p : p.passed),
     fails |-> SelectSeq(points, LAMBDA p : ~p.passed)]

OpsOfElapsed(points) == [i \in DOMAIN points |-> points[i].elapsedSecs]

OpsOf(points) == [i \in DOMAIN points |-> points[i].opsSec]

\* rawWriteRun.opsPerSecSplit on the receiver r: the value returned (ret), the
\* receiver after the call (r) and whether findOptimalSplit was executed (ran).
opsPerSecSplit(r) ==
    IF r.split > 0
    THEN [ret |-> r.split, r |-> r, ran |-> FALSE]
    ELSE LET part == Partition(r.points)
             split == findOptimalSplit(OpsOf(part.passes), OpsOf(part.fails))
         IN [ret |-> split, r |-> [r EXCEPT !.split = split], ran |-> TRUE]

\* rawWriteRun.writeAmp: the write amplification of the last datapoint.
writeAmp(r) == r.points[Len(r.points)].writeAmp

\* writePoint.formatCSV / rawWriteRun.formatCSV: one row per datapoint.
formatCSV(r) ==
    [i \in DOMAIN r.points |->
        <<r.points[i].elapsedSecs, r.points[i].opsSec, r.points[i].passed,
          r.points[i].size, r.points[i].levels, r.points[i].writeAmp>>]

----------------------------------------------------------------------------
(* writeRun *)

\* writeRun.summaryFilename
runSummaryFilename(r) == Join(r.dir \o <<summaryFilename>>, "-")

\* math.Round(100*sum/l)/100 on hundredths (non-negative operands).
RoundDivTruncated(sum, l) == sum \div l

RoundDiv(sum, l) == (2 * sum + l) \div (2 * l)

\* writeRun.summarize.  The loop variable rr is a copy of the map value, so
\* the split stored by opsPerSecSplit lands in the copy.
summarize(r) ==
    LET paths == DOMAIN r.rawRuns
        ops == [q \in paths |-> opsPerSecSplit(r.rawRuns[q]).ret]
        amps == [q \in paths |-> writeAmp(r.rawRuns[q])]
        l == Cardinality(paths)
    IN [Name |-> r.name, Date |-> r.date,
        OpsSec |-> SumOver(ops, paths) \div l,
        WriteAmp |-> RoundDiv(SumOver(amps, paths), l),
        SummaryPath |-> runSummaryFilename(r)]

\* writeRun.formatSummaryJSON: path of the raw file -> cookedWriteRun.  The
\* loop variable data is a copy of the map value as well.
formatSummaryJSON(r) ==
    [q \in DOMAIN r.rawRuns |->
        [OpsSec |-> opsPerSecSplit(r.rawRuns[q]).ret,
         Raw |-> formatCSV(r.rawRuns[q])]]

\* The raw runs of a writeRun for which a call of opsPerSecSplit from
\* summarize or formatSummaryJSON executes findOptimalSplit.
ReducerRan(r) == {q \in DOMAIN r.rawRuns : opsPerSecSplit(r.rawRuns[q]).ran}

----------------------------------------------------------------------------
(* writeLoader *)

\* loadCooked, lines 365-369: the (name, day) pairs of a decoded summary.
CookedSetFirstOnly(summaries) ==
    {<<name, summaries[name][1].Date>> :
        name \in {n \in DOMAIN summaries : Len(summaries[n]) > 0}}

CookedSet(summaries) ==
    UNION {{<<name, summaries[name][i].Date>> : i \in DOMAIN summaries[name]} :
        name \in DOMAIN summaries}

\* loadRaw, line 437: is (name, day) previously cooked?
IsCookedNever(cookedSet, name, day) == FALSE

IsCooked(cookedSet, name, day) == <<name, day>> \in cookedSet

\* The writePoint of a fully parsed line.
PointOf(line) ==
    [elapsedSecs |-> line.elapsedMs \div 1000, opsSec |-> line.opsSec,
     passed |-> line.passed, size |-> line.size, levels |-> line.levels,
     writeAmp |-> line.writeAmp]

\* loadRaw, the loop over the lines of one file from line i on, with the
\* name and the points gathered so far.  skip: the file was found cooked.
RECURSIVE ScanLinesStopAtBadLine(_, _, _, _, _, _)
ScanLinesStopAtBadLine(cookedSet, day, lines, i, name, points) ==
    IF i > Len(lines) THEN [skip |-> FALSE, name |-> name, points |-> points]
    ELSE LET line == lines[i]
             first == name = ""
             nm == IF first THEN line.name ELSE name
         IN IF ~line.tag
            THEN ScanLinesStopAtBadLine(cookedSet, day, lines, i + 1, name, points)
            ELSE IF ~line.scanOK
            THEN [skip |-> FALSE, name |-> name, points |-> points]
            ELSE IF first /\ IsCooked(cookedSet, nm, day)
            THEN [skip |-> TRUE, name |-> nm, points |-> points]
            ELSE IF line.elapsedMs < 0
            THEN [skip |-> FALSE, name |-> nm, points |-> points]
            ELSE ScanLinesStopAtBadLine(cookedSet, day, lines, i + 1, nm,
                                        Append(points, PointOf(line)))

RECURSIVE ScanLines(_, _, _, _, _, _)
ScanLines(cookedSet, day, lines, i, name, points) ==
    IF i > Len(lines) THEN [skip |-> FALSE, name |-> name, points |-> points]
    ELSE LET line == lines[i]
             first == name = ""
             nm == IF first THEN line.name ELSE name
         IN IF ~line.tag \/ ~line.scanOK
            THEN ScanLines(cookedSet, day, lines, i + 1, name, points)
            ELSE IF first /\ IsCooked(cookedSet, nm, day)
            THEN [skip |-> TRUE, name |-> nm, points |-> points]
            ELSE IF line.elapsedMs < 0
            THEN ScanLines(cookedSet, day, lines, i + 1, nm, points)
            ELSE ScanLines(cookedSet, day, lines, i + 1, nm,
                           Append(points, PointOf(line)))

\* addRawRun
addRawRunUnguarded(wl, name, day, path, raw) ==
    LET w == IF name \in DOMAIN wl THEN wl[name] ELSE EmptyMap
        r == IF day \in DOMAIN w THEN w[day]
             ELSE [name |-> name, date |-> day,
                   dir |-> SubSeq(path, 1, Len(path) - 1),
                   rawRuns |-> EmptyMap]
        r2 == [r EXCEPT !.rawRuns = (path :> raw) @@ r.rawRuns]
    IN (name :> ((day :> r2) @@ w)) @@ wl

addRawRunMerging(wl, name, day, path, raw) ==
    IF Len(raw.points) = 0 THEN wl
    ELSE LET w == IF name \in DOMAIN wl THEN wl[name] ELSE EmptyMap
             r == IF day \in DOMAIN w THEN w[day]
                  ELSE [name |-> name, date |-> day,
                        dir |-> SubSeq(path, 1, Len(path) - 1),
                        rawRuns |-> EmptyMap]
             old == IF path \in DOMAIN r.rawRuns THEN r.rawRuns[path].points
                    ELSE <<>>
             r2 == [r EXCEPT !.rawRuns =
                        (path :> [raw EXCEPT !.points = old \o @]) @@ r.rawRuns]
         IN (name :> ((day :> r2) @@ w)) @@ wl

addRawRunNamedByDir(wl, name, day, path, raw) ==
    IF Len(raw.points) = 0 THEN wl
    ELSE LET w == IF name \in DOMAIN wl THEN wl[name] ELSE EmptyMap
             r == IF day \in DOMAIN w THEN w[day]
                  ELSE [name |-> path[4], date |-> day,
                        dir |-> SubSeq(path, 1, Len(path) - 1),
                        rawRuns |-> EmptyMap]
             r2 == [r EXCEPT !.rawRuns = (path :> raw) @@ r.rawRuns]
         IN (name :> ((day :> r2) @@ w)) @@ wl

addRawRun(wl, name, day, path, raw) ==
    IF Len(raw.points) = 0 THEN wl
    ELSE LET w == IF name \in DOMAIN wl THEN wl[name] ELSE EmptyMap
             r == IF day \in DOMAIN w THEN w[day]
                  ELSE [name |-> name, date |-> day,
                        dir |-> SubSeq(path, 1, Len(path) - 1),
                        rawRuns |-> EmptyMap]
             r2 == [r EXCEPT !.rawRuns = (path :> raw) @@ r.rawRuns]
         IN (name :> ((day :> r2) @@ w)) @@ wl

\* walkFn of loadRaw on a file with path parts and the given lines: the
\* workloads afterwards and whether the file was skipped as previously cooked.
walkFile(wl, cookedSet, parts, lines) ==
    LET day == parts[1]
        scan == ScanLines(cookedSet, day, lines, 1, "", <<>>)
    IN IF Len(parts) < 6 \/ parts[3] # "write"
       THEN [workloads |-> wl, skip |-> FALSE]
       ELSE IF scan.skip THEN [workloads |-> wl, skip |-> TRUE]
       ELSE [workloads |->
                addRawRun(wl, scan.name, day, parts,
                          [points |-> scan.points, split |-> 0]),
             skip |-> FALSE]

\* walkFn on file f of the file table.
walkFn(wl, cookedSet, f) ==
    walkFile(wl, cookedSet, FileTable[f].path, FileTable[f].lines)

\* sort.Strings on a set of dates.
RECURSIVE SortDays(_)
SortDays(S) ==
    IF S = {} THEN <<>>
    ELSE LET d == CHOOSE x \in S : \A y \in S : ~DateLess(y, x)
         IN <<d>> \o SortDays(S \ {d})

\* cookWriteSummary
cookWriteSummaryUnsorted(w) ==
    LET days == SortDays(DOMAIN w)
    IN [i \in DOMAIN days |-> summarize(w[days[Len(days) + 1 - i]])]

cookWriteSummary(w) ==
    LET days == SortDays(DOMAIN w)
    IN [i \in DOMAIN days |-> summarize(w[days[i]])]

\* sort.Slice by Date: every ordering an unstable sort can produce.
RECURSIVE SortByDate(_)
SortByDate(s) ==
    IF Len(s) = 0 THEN {<<>>}
    ELSE UNION {{<<s[i]>> \o t : t \in SortByDate(RemoveAt(s, i))} :
            i \in {j \in DOMAIN s :
                     \A k \in DOMAIN s : ~DateLess(s[k].Date, s[j].Date)}}

\* cookSummary, lines 516-521: merge and re-sort by date.
MergeNoSort(existing, cookedSeq) == {existing \o cookedSeq}

MergeDropCooked(existing, cookedSeq) == {existing}

MergeCooked(existing, cookedSeq) == SortByDate(existing \o cookedSeq)

\* cookSummary, lines 512-514: a workload without new data.
PassThroughResorted(cookedSeq) ==
    [i \in DOMAIN cookedSeq |-> cookedSeq[Len(cookedSeq) + 1 - i]]

PassThrough(cookedSeq) == cookedSeq

\* cookSummary, lines 505-523: the summaries that can be written.
MixInNewOnly(wl, cs) ==
    {[name \in DOMAIN wl |-> cookWriteSummary(wl[name])]}

MixIn(wl, cs) ==
    LET summary == [name \in DOMAIN wl |-> cookWriteSummary(wl[name])]
        names == DOMAIN summary \cup DOMAIN cs
        choices(name) ==
            IF name \notin DOMAIN cs THEN {summary[name]}
            ELSE IF name \notin DOMAIN summary THEN {PassThrough(cs[name])}
            ELSE MergeCooked(summary[name], cs[name])
    IN {m \in [names -> UNION {choices(n) : n \in names}] :
           \A n \in names : m[n] \in choices(n)}

\* cookWriteRunSummaries: the runs of the tree and their output paths.
RunsOf(wl) ==
    UNION {{<<name, day>> : day \in DOMAIN wl[name]} : name \in DOMAIN wl}

RunAt(wl, k) == wl[k[1]][k[2]]

\* The raw-run paths for which one pass over the tree (cookSummary through
\* summarize, cookWriteRunSummaries through formatSummaryJSON) executes
\* findOptimalSplit.
TreeReducerRan(wl) == UNION {ReducerRan(RunAt(wl, k)) : k \in RunsOf(wl)}

----------------------------------------------------------------------------
(* snapshotList: a circular doubly linked list around a root element.
   Element 0 is the root, element i > 0 the i-th snapshot pushed. *)

\* l.init(): the root is its own neighbour.
snapshotListInit == [next |-> <<0>>, prev |-> <<0>>, seqNum |-> <<>>]

\* The neighbour of element e; the root is kept at position 1.
NextOf(l, e) == l.next[e + 1]

PrevOf(l, e) == l.prev[e + 1]

\* l.pushBack(&Snapshot{seqNum: v}): link the snapshot before the root.
pushFront(l, v) ==
    LET s == Len(l.seqNum) + 1
        first == NextOf(l, 0)
        nxt == [e \in 0..s |-> IF e = 0 THEN s
                               ELSE IF e = s THEN first
                               ELSE NextOf(l, e)]
        prv == [e \in 0..s |-> IF e = first THEN s
                               ELSE IF e = s THEN 0
                               ELSE PrevOf(l, e)]
    IN [next |-> [i \in 1..(s + 1) |-> nxt[i - 1]],
        prev |-> [i \in 1..(s + 1) |-> prv[i - 1]],
        seqNum |-> Append(l.seqNum, v)]

pushBack(l, v) ==
    LET s == Len(l.seqNum) + 1
        last == PrevOf(l, 0)
        nxt == [e \in 0..s |-> IF e = last THEN s
                               ELSE IF e = s THEN 0
                               ELSE NextOf(l, e)]
        prv == [e \in 0..s |-> IF e = 0 THEN s
                               ELSE IF e = s THEN last
                               ELSE PrevOf(l, e)]
    IN [next |-> [i \in 1..(s + 1) |-> nxt[i - 1]],
        prev |-> [i \in 1..(s + 1) |-> prv[i - 1]],
        seqNum |-> Append(l.seqNum, v)]

\* The sequence numbers from element e to the root, following next.
RECURSIVE Walk(_, _)
Walk(l, e) ==
    IF e = 0 THEN <<>> ELSE <<l.seqNum[e]>> \o Walk(l, NextOf(l, e))

\* l.toSlice()
toSlice(l) == Walk(l, NextOf(l, 0))

----------------------------------------------------------------------------
(* Initial state: empty input and output directories, no invocation *)

NoRun == [points |-> <<>>, split |-> 0]

InitMain ==
    /\ dataFiles = {}
    /\ summaryFile = [exists |-> FALSE, data |-> EmptyMap, valid |-> TRUE]
    /\ detailFiles = EmptyMap
    /\ pc = [p \in Procs |-> "idle"]
    /\ cursor = [p \in Procs |-> 0]
    /\ workloads = [p \in Procs |-> EmptyMap]
    /\ cooked = [p \in Procs |-> {}]
    /\ cookedSummaries = [p \in Procs |-> EmptyMap]
    /\ invocations = 0
    /\ unchanged = FALSE
    /\ rerun = [p \in Procs |-> FALSE]
    /\ skipped = [p \in Procs |-> {}]

NoInput == <<>>

Init ==
    /\ InitMain
    /\ run = NoRun
    /\ input = NoInput
    /\ snapshots = snapshotListInit
    /\ result = <<>>

\* parseWrite is not running in slot p: not called yet, returned, or returned
\* an error.
Returned(p) == pc[p] \in {"idle", "failed"}

Quiescent == \A q \in Procs : Returned(q)

----------------------------------------------------------------------------
(* parseWrite, one step per call it makes *)

\* parseWrite, line 591: newWriteLoader.
NewLoader(p) ==
    /\ Returned(p)
    /\ invocations' = invocations + 1
    /\ pc' = [pc EXCEPT ![p] = "loadCooked"]
    /\ cursor' = [cursor EXCEPT ![p] = 0]
    /\ workloads' = [workloads EXCEPT ![p] = EmptyMap]
    /\ cooked' = [cooked EXCEPT ![p] = {}]
    /\ cookedSummaries' = [cookedSummaries EXCEPT ![p] = EmptyMap]
    /\ rerun' = [rerun EXCEPT ![p] = unchanged]
    /\ skipped' = [skipped EXCEPT ![p] = {}]
    /\ UNCHANGED <<dataFiles, summaryFile, detailFiles, unchanged, harnessVars>>

\* An invocation started while no other invocation is running.
Start(p) == Quiescent /\ invocations < MaxInvocations /\ NewLoader(p)

\* An invocation started whatever the other invocations do.
StartConcurrent(p) ==
    /\ invocations < MaxConcInvocations
    /\ \A q \in Procs : q < p => ~Returned(q)
    /\ NewLoader(p)

\* loadCooked, and the return of parseWrite at line 593 if it fails.
LoadCookedIgnoringError(p) ==
    /\ pc[p] = "loadCooked"
    /\ pc' = [pc EXCEPT ![p] = "loadRaw"]
    /\ IF summaryFile.exists
       THEN /\ cookedSummaries' = [cookedSummaries EXCEPT ![p] = summaryFile.data]
            /\ cooked' = [cooked EXCEPT ![p] = CookedSet(summaryFile.data)]
       ELSE UNCHANGED <<cookedSummaries, cooked>>
    /\ UNCHANGED <<dataFiles, summaryFile, detailFiles, cursor, workloads,
                   invocations, unchanged, rerun, skipped, harnessVars>>

LoadCooked(p) ==
    /\ pc[p] = "loadCooked"
    /\ IF summaryFile.exists /\ ~summaryFile.valid
       THEN \* json.Unmarshal fails, before l.cookedSummaries and l.cooked
            \* are assigned.
            /\ pc' = [pc EXCEPT ![p] = "failed"]
            /\ rerun' = [rerun EXCEPT ![p] = FALSE]
            /\ UNCHANGED <<cookedSummaries, cooked>>
       ELSE /\ pc' = [pc EXCEPT ![p] = "loadRaw"]
            /\ IF summaryFile.exists
               THEN /\ cookedSummaries' =
                          [cookedSummaries EXCEPT ![p] = summaryFile.data]
                    /\ cooked' = [cooked EXCEPT ![p] = CookedSet(summaryFile.data)]
               ELSE UNCHANGED <<cookedSummaries, cooked>>
            /\ UNCHANGED rerun
    /\ UNCHANGED <<dataFiles, summaryFile, detailFiles, cursor, workloads,
                   invocations, unchanged, skipped, harnessVars>>

\* The positions of WalkOrder after position c that hold a file.
Ahead(c) == {i \in DOMAIN WalkOrder : i > c /\ WalkOrder[i] \in dataFiles}

\* loadRaw: walkDir reaches the next file there is and calls walkFn on it.
LoadRawFile(p) ==
    /\ pc[p] = "loadRaw"
    /\ Ahead(cursor[p]) # {}
    /\ LET i == Min(Ahead(cursor[p]))
           f == WalkOrder[i]
           w == walkFn(workloads[p], cooked[p], f)
       IN /\ workloads' = [workloads EXCEPT ![p] = w.workloads]
          /\ skipped' = [skipped EXCEPT ![p] = IF w.skip THEN @ \cup {f} ELSE @]
          /\ cursor' = [cursor EXCEPT ![p] = i]
    /\ UNCHANGED <<dataFiles, summaryFile, detailFiles, pc, cooked,
                   cookedSummaries, invocations, unchanged, rerun, harnessVars>>

\* loadRaw: walkDir finds no further file and loadRaw returns.
LoadRawDone(p) ==
    /\ pc[p] = "loadRaw"
    /\ Ahead(cursor[p]) = {}
    /\ pc' = [pc EXCEPT ![p] = "cookSummary"]
    /\ UNCHANGED <<dataFiles, summaryFile, detailFiles, cursor, workloads, cooked,
                   cookedSummaries, invocations, unchanged, rerun, skipped,
                   harnessVars>>

CookSummary(p) ==
    /\ pc[p] = "cookSummary"
    /\ \E m \in MixIn(workloads[p], cookedSummaries[p]) :
          summaryFile' = [exists |-> TRUE, data |-> m, valid |-> TRUE]
    /\ pc' = [pc EXCEPT ![p] = "cookWriteRunSummaries"]
    /\ UNCHANGED <<dataFiles, detailFiles, cursor, workloads, cooked,
                   cookedSummaries, invocations, unchanged, rerun, skipped,
                   harnessVars>>

\* cookWriteRunSummaries: every run is written to its output path; of the runs
\* that share an output path the one written last remains.
CookWriteRunSummaries(p) ==
    /\ pc[p] = "cookWriteRunSummaries"
    /\ LET wl == workloads[p]
           runs == RunsOf(wl)
           paths == {runSummaryFilename(RunAt(wl, k)) : k \in runs}
           writers(o) == {k \in runs : runSummaryFilename(RunAt(wl, k)) = o}
       IN \E last \in [paths -> runs] :
             /\ \A o \in paths : last[o] \in writers(o)
             /\ detailFiles' =
                   [o \in paths |-> formatSummaryJSON(RunAt(wl, last[o]))]
                       @@ detailFiles
    \* parseWrite returns and its loader is gone.
    /\ pc' = [pc EXCEPT ![p] = "idle"]
    /\ cursor' = [cursor EXCEPT ![p] = 0]
    /\ workloads' = [workloads EXCEPT ![p] = EmptyMap]
    /\ cooked' = [cooked EXCEPT ![p] = {}]
    /\ cookedSummaries' = [cookedSummaries EXCEPT ![p] = EmptyMap]
    /\ rerun' = [rerun EXCEPT ![p] = FALSE]
    /\ skipped' = [skipped EXCEPT ![p] = {}]
    /\ unchanged' = TRUE
    /\ UNCHANGED <<dataFiles, summaryFile, invocations, harnessVars>>

\* cookWriteRunSummaries returns the error of outputWriteRunSummary on run k:
\* the runs the map iteration reached before k are written, k is not.  If
\* OpenFile fails, nothing is at the output path of k that was not there; if
\* Write fails, OpenFile has created or truncated the file and it is empty.
CookWriteRunSummariesFails(p) ==
    /\ pc[p] = "cookWriteRunSummaries"
    /\ LET wl == workloads[p]
           runs == RunsOf(wl)
       IN \E k \in runs : \E done \in SUBSET (runs \ {k}) : \E truncated \in BOOLEAN :
             LET paths == {runSummaryFilename(RunAt(wl, j)) : j \in done}
                 writers(o) == {j \in done : runSummaryFilename(RunAt(wl, j)) = o}
                 failing == IF truncated
                            THEN runSummaryFilename(RunAt(wl, k)) :> EmptyMap
                            ELSE EmptyMap
             IN \E last \in [paths -> done] :
                   /\ \A o \in paths : last[o] \in writers(o)
                   /\ detailFiles' =
                         failing @@
                         [o \in paths |-> formatSummaryJSON(RunAt(wl, last[o]))]
                             @@ detailFiles
    \* parseWrite returns the error and its loader is gone.
    /\ pc' = [pc EXCEPT ![p] = "failed"]
    /\ cursor' = [cursor EXCEPT ![p] = 0]
    /\ workloads' = [workloads EXCEPT ![p] = EmptyMap]
    /\ cooked' = [cooked EXCEPT ![p] = {}]
    /\ cookedSummaries' = [cookedSummaries EXCEPT ![p] = EmptyMap]
    /\ rerun' = [rerun EXCEPT ![p] = FALSE]
    /\ skipped' = [skipped EXCEPT ![p] = {}]
    /\ unchanged' = FALSE
    /\ UNCHANGED <<dataFiles, summaryFile, invocations, harnessVars>>

----------------------------------------------------------------------------
(* The environment: raw files appear under dataDir *)

PutFile(f) ==
    /\ f \notin dataFiles
    /\ dataFiles' = dataFiles \cup {f}
    /\ unchanged' = FALSE
    /\ UNCHANGED <<summaryFile, detailFiles, pc, cursor, workloads, cooked,
                   cookedSummaries, invocations, rerun, skipped, harnessVars>>

\* A file added between two invocations.
AddFile(f) == Quiescent /\ Cardinality(dataFiles) < MaxFiles /\ PutFile(f)

\* A file added at any moment.
AddFileConcurrent(f) == Cardinality(dataFiles) < MaxConcFiles /\ PutFile(f)

\* A raw file removed between two invocations.
RemoveFile(f) ==
    /\ Quiescent
    /\ f \in dataFiles
    /\ dataFiles' = dataFiles \ {f}
    /\ unchanged' = FALSE
    /\ UNCHANGED <<summaryFile, detailFiles, pc, cursor, workloads, cooked,
                   cookedSummaries, invocations, rerun, skipped, harnessVars>>

\* Between two invocations the bytes of summary.json are damaged (a partial
\* write, an edit by hand): json.Unmarshal will reject them.
CorruptSummary ==
    /\ Quiescent
    /\ summaryFile.exists
    /\ summaryFile.valid
    /\ summaryFile' = [exists |-> TRUE, data |-> EmptyMap, valid |-> FALSE]
    /\ unchanged' = FALSE
    /\ UNCHANGED <<dataFiles, detailFiles, pc, cursor, workloads, cooked,
                   cookedSummaries, invocations, rerun, skipped, harnessVars>>

----------------------------------------------------------------------------
(* Specifications *)

\* Sequential invocations of parseWrite.
Next ==
    \/ \E p \in SeqProcs : Start(p)
    \/ \E p \in SeqProcs : LoadCooked(p)
    \/ \E p \in SeqProcs : LoadRawFile(p)
    \/ \E p \in SeqProcs : LoadRawDone(p)
    \/ \E p \in SeqProcs : CookSummary(p)
    \/ \E p \in SeqProcs : CookWriteRunSummaries(p)
    \/ \E f \in Files : AddFile(f)

Spec == Init /\ [][Next]_vars

\* Interleaved invocations of parseWrite against the same directories.
NextConc ==
    \/ \E p \in Procs : StartConcurrent(p)
    \/ \E p \in Procs : LoadCooked(p)
    \/ \E p \in Procs : LoadRawFile(p)
    \/ \E p \in Procs : LoadRawDone(p)
    \/ \E p \in Procs : CookSummary(p)
    \/ \E p \in Procs : CookWriteRunSummaries(p)
    \/ \E f \in ConcFiles : AddFileConcurrent(f)

SpecConc == Init /\ [][NextConc]_vars

\* Sequential invocations of parseWrite, with a summary.json that can be
\* damaged between them.
NextFatal ==
    \/ Next
    \/ CorruptSummary

SpecFatal == Init /\ [][NextFatal]_vars

\* Sequential invocations of parseWrite in which writing a per-run file can
\* fail.
NextAbort ==
    \/ Next
    \/ \E p \in SeqProcs : CookWriteRunSummariesFails(p)

SpecAbort == Init /\ [][NextAbort]_vars

\* Sequential invocations of parseWrite over a directory in which raw files
\* come and go.
NextRemove ==
    \/ Next
    \/ \E f \in Files : RemoveFile(f)

SpecRemove == Init /\ [][NextRemove]_vars

----------------------------------------------------------------------------
(* The reducer on its own: opsPerSecSplit called on one rawWriteRun *)

HarnessPoints ==
    [elapsedSecs : {0}, opsSec : 0..MaxOps, passed : BOOLEAN, size : {1024},
     levels : {3}, writeAmp : {100}]

InitReducer ==
    /\ InitMain
    /\ run \in {[points |-> pts, split |-> 0] :
                  pts \in UNION {[1..n -> HarnessPoints] : n \in 1..MaxPoints}}
    /\ input = NoInput
    /\ snapshots = snapshotListInit
    /\ result = <<>>

\* A call r.opsPerSecSplit() through a pointer to the rawWriteRun.
CallSplit ==
    /\ Len(result) < MaxCalls
    /\ LET c == opsPerSecSplit(run)
       IN run' = c.r /\ result' = Append(result, c.ret)
    /\ UNCHANGED <<mainVars, input, snapshots>>

NextReducer == CallSplit

SpecReducer == InitReducer /\ [][NextReducer]_vars

----------------------------------------------------------------------------
(* summarize on its own: one writeRun with up to MaxWorkers raw runs *)

\* The last datapoint of a raw run of the harness; every datapoint passes.
LastPoints ==
    [elapsedSecs : {2}, opsSec : {1000, 1200, 1201}, passed : {TRUE},
     size : {1024}, levels : {3}, writeAmp : {200, 300, 301}]

\* An earlier datapoint, with a higher ops/sec and another write amplification.
EarlierPoint ==
    [elapsedSecs |-> 1, opsSec |-> 2000, passed |-> TRUE, size |-> 1024,
     levels |-> 3, writeAmp |-> 999]

WorkerRuns ==
    {[points |-> <<p>>, split |-> 0] : p \in LastPoints} \cup
    {[points |-> <<EarlierPoint, p>>, split |-> 0] : p \in LastPoints}

WorkerPath(i) == <<"2023-01-01", "pebble", "write", "w1", "r1", ToString(i)>>

InitSummarize ==
    /\ InitMain
    /\ run = NoRun
    /\ input \in {[name |-> "w1", date |-> "2023-01-01",
                    dir |-> <<"2023-01-01", "pebble", "write", "w1", "r1">>,
                    rawRuns |-> [q \in {WorkerPath(i) : i \in 1..n} |-> rr[q]]] :
                      rr \in [{WorkerPath(i) : i \in 1..MaxWorkers} -> WorkerRuns],
                      n \in 1..MaxWorkers}
    /\ snapshots = snapshotListInit
    /\ result = <<>>

\* A call r.summarize().
CallSummarize ==
    /\ Len(result) = 0
    /\ result' = <<summarize(input)>>
    /\ UNCHANGED <<mainVars, run, input, snapshots>>

NextSummarize == CallSummarize

SpecSummarize == InitSummarize /\ [][NextSummarize]_vars

----------------------------------------------------------------------------
(* walkFn on its own: one file with up to MaxLines lines *)

LineKinds ==
    {Noise, BadScan, BadDur("w1", 10, TRUE, 100), BadDur("w2", 30, TRUE, 100),
     Rec("w1", 20, TRUE, 1999, 125), Rec("w2", 40, FALSE, 2000, 110)}

ScanPath == <<"2023-01-01", "pebble", "write", "w1", "r1", "a.log">>

InitScan ==
    /\ InitMain
    /\ run = NoRun
    /\ input \in {[path |-> ScanPath, lines |-> ls, cookedSet |-> cs] :
                    ls \in UNION {[1..n -> LineKinds] : n \in 0..MaxLines},
                    cs \in SUBSET {<<"w1", ScanPath[1]>>, <<"w2", ScanPath[1]>>}}
    /\ snapshots = snapshotListInit
    /\ result = <<>>

\* walkFn is called on the file, by a loader whose cooked set is given.
CallWalkFn ==
    /\ Len(result) = 0
    /\ LET w == walkFile(workloads[1], input.cookedSet, input.path, input.lines)
       IN /\ workloads' = [workloads EXCEPT ![1] = w.workloads]
          /\ result' = <<w.skip>>
    /\ UNCHANGED <<dataFiles, summaryFile, detailFiles, pc, cursor, cooked,
                   cookedSummaries, invocations, unchanged, rerun, skipped,
                   run, input, snapshots>>

NextScan == CallWalkFn

SpecScan == InitScan /\ [][NextScan]_vars

----------------------------------------------------------------------------
(* The snapshot list test: pushBack of the values of a test case, then
   toSlice *)

\* l.pushBack(&Snapshot{seqNum: v}) for the next value v of the test case.
TestPushBack(v) ==
    /\ Len(result) = 0
    /\ Len(input) < MaxSnapshots
    /\ snapshots' = pushBack(snapshots, v)
    /\ input' = Append(input, v)
    /\ UNCHANGED <<mainVars, run, result>>

\* slice := l.toSlice()
TestToSlice ==
    /\ Len(result) = 0
    /\ result' = <<toSlice(snapshots)>>
    /\ UNCHANGED <<mainVars, run, input, snapshots>>

NextSnapshot ==
    \/ \E v \in 1..MaxSeqNum : TestPushBack(v)
    \/ TestToSlice

SpecSnapshot == Init /\ [][NextSnapshot]_vars

----------------------------------------------------------------------------
(* addRawRun on its own: calls with arguments drawn from small sets *)

RawA == [points |-> <<PointOf(Rec("w1", 100, TRUE, 1500, 200))>>, split |-> 0]

RawB == [points |-> <<PointOf(Rec("w1", 300, TRUE, 1000, 300)),
                      PointOf(Rec("w1", 301, TRUE, 2000, 301))>>, split |-> 0]

\* Two files of one day in different run directories, one file of another day.
TreePaths ==
    {<<"2023-01-01", "pebble", "write", "w1", "r1", "a.log">>,
     <<"2023-01-01", "pebble", "write", "w1", "r2", "a.log">>,
     <<"2023-01-02", "pebble", "write", "w1", "r1", "a.log">>}

\* The arguments of a call; the day is the first component of the path.
Calls == [name : {"w1", "w2"}, path : TreePaths, raw : {RawA, RawB, NoRun}]

OrderCalls == {c \in Calls : c.name = "w1" /\ Len(c.raw.points) > 0}

\* The raw run the tree holds under the key of call c, if any.
HeldAt(wl, c) ==
    IF /\ c.name \in DOMAIN wl
       /\ c.path[1] \in DOMAIN wl[c.name]
       /\ c.path \in DOMAIN wl[c.name][c.path[1]].rawRuns
    THEN <<wl[c.name][c.path[1]].rawRuns[c.path]>>
    ELSE <<>>

\* A call l.addRawRun(name, day, path, raw) on the loader of slot p.
AddRawRunCall(p, c) ==
    /\ cursor[p] < MaxAdds
    /\ cursor' = [cursor EXCEPT ![p] = @ + 1]
    /\ workloads' = [workloads EXCEPT ![p] =
                        addRawRun(@, c.name, c.path[1], c.path, c.raw)]
    /\ input' = [slot |-> p, call |-> c, held |-> HeldAt(workloads[p], c)]
    /\ UNCHANGED <<dataFiles, summaryFile, detailFiles, pc, cooked,
                   cookedSummaries, invocations, unchanged, rerun, skipped,
                   run, snapshots, result>>

\* One loader receiving any calls.
NextTree == \E c \in Calls : AddRawRunCall(1, c)

SpecTree == Init /\ [][NextTree]_vars

\* Two loaders receiving calls in orders of their own.
NextOrder == \E p \in Procs : \E c \in OrderCalls : AddRawRunCall(p, c)

SpecOrder == Init /\ [][NextOrder]_vars

----------------------------------------------------------------------------
(* Vocabulary of the properties *)

Dates(s) == [i \in DOMAIN s |-> s[i].Date]

SortedByDate(s) == \A i, j \in DOMAIN s : i < j => ~DateLess(s[j].Date, s[i].Date)

OneEntryPerDate(s) == \A i, j \in DOMAIN s : i # j => s[i].Date # s[j].Date

Count(s, e) == Cardinality({i \in DOMAIN s : s[i] = e})

Active(p) == pc[p] \notin {"idle", "failed"}

\* The step of slot p is its call of cookSummary.
CookSummaryStep(p) == pc[p] = "cookSummary" /\ pc'[p] = "cookWriteRunSummaries"

\* The benchmark name loadRaw finds in file f ("" if it has no parsable line).
NameIn(f) == ScanLines({}, FileTable[f].path[1], FileTable[f].lines, 1, "", <<>>).name

\* The top-level summary on disk has an entry for (name, day).
InSummary(name, day) ==
    /\ summaryFile.exists
    /\ name \in DOMAIN summaryFile.data
    /\ \E i \in DOMAIN summaryFile.data[name] : summaryFile.data[name][i].Date = day

\* File f belongs to a (workload, day) of the top-level summary on disk.
Summarized(f) == InSummary(NameIn(f), FileTable[f].path[1])

----------------------------------------------------------------------------
(* Properties *)

\* C1: under sequential invocations that start with no summary file, with
\* files added only between invocations, every workload's sequence in the
\* top-level summary on disk is sorted ascending by date.
C1_SummarySorted ==
    summaryFile.exists =>
        \A name \in DOMAIN summaryFile.data : SortedByDate(summaryFile.data[name])

\* C1 witness: cookSummary has just merged, for one workload, a newly computed
\* day that precedes a previously cooked day.
C1_Witness ==
    \E p \in SeqProcs :
        /\ pc[p] = "cookWriteRunSummaries"
        /\ \E name \in DOMAIN workloads[p] \cap DOMAIN cookedSummaries[p] :
              \E day \in DOMAIN workloads[p][name] :
                 \E i \in DOMAIN cookedSummaries[p][name] :
                    DateLess(day, cookedSummaries[p][name][i].Date)

\* C2: under interleaved invocations against the same directories, every
\* workload's sequence in the top-level summary on disk has at most one entry
\* per date.
C2_OneEntryPerDate ==
    summaryFile.exists =>
        \A name \in DOMAIN summaryFile.data : OneEntryPerDate(summaryFile.data[name])

\* C2 witness: an invocation is about to write its summary, which merges
\* cooked and new entries of one workload, while the summary on disk already
\* holds an entry, written by the other invocation, for a (workload, day) it
\* has newly computed itself.
C2_Witness ==
    \E p \in Procs :
        /\ pc[p] = "cookSummary"
        /\ DOMAIN workloads[p] \cap DOMAIN cookedSummaries[p] # {}
        /\ \E k \in RunsOf(workloads[p]) : InSummary(k[1], k[2])

\* C3: an invocation over an input directory unchanged since the previous
\* invocation completed leaves the top-level summary and every per-run detail
\* file as they were, adds nothing to its tree, and skips every file of a
\* (workload, day) that is in the summary.
C3_IdempotentRerun ==
    /\ [][\A p \in SeqProcs :
            (rerun[p] /\ Active(p)) =>
                (summaryFile' = summaryFile /\ detailFiles' = detailFiles)]_vars
    /\ [](\A p \in SeqProcs :
            (rerun[p] /\ pc[p] \in {"cookSummary", "cookWriteRunSummaries"}) =>
                /\ DOMAIN workloads[p] = {}
                /\ \A f \in dataFiles : Summarized(f) => f \in skipped[p])

\* C3 witness: a second run over an unchanged directory has written the
\* summary, having skipped files, with detail files of the first run on disk.
C3_Witness ==
    \E p \in SeqProcs :
        /\ pc[p] = "cookWriteRunSummaries"
        /\ rerun[p]
        /\ Cardinality(skipped[p]) >= 2
        /\ DOMAIN detailFiles # {}

\* C4: a file whose (name, day) is in the set built by loadCooked has no raw
\* run in the tree, and while and after loadRaw runs no (workload, day) key of
\* the tree is in that set.
C4_CookedFilter ==
    \A p \in Procs :
        pc[p] \in {"loadRaw", "cookSummary", "cookWriteRunSummaries"} =>
            /\ RunsOf(workloads[p]) \cap cooked[p] = {}
            /\ \A f \in Files :
                  <<NameIn(f), FileTable[f].path[1]>> \in cooked[p] =>
                      \A k \in RunsOf(workloads[p]) :
                         FileTable[f].path \notin DOMAIN RunAt(workloads[p], k).rawRuns

\* C4 witness: loadRaw has returned after skipping a cooked file and adding
\* another one to the tree.
C4_Witness ==
    \E p \in SeqProcs :
        /\ pc[p] = "cookSummary"
        /\ skipped[p] # {}
        /\ DOMAIN workloads[p] # {}

\* C5: an entry of the top-level summary stays in it, unchanged, in every
\* later step of sequential invocations.
C5_EntriesStay ==
    [][\A name \in DOMAIN summaryFile.data :
          \A i \in DOMAIN summaryFile.data[name] :
             /\ summaryFile'.exists
             /\ name \in DOMAIN summaryFile'.data
             /\ Count(summaryFile'.data[name], summaryFile.data[name][i]) = 1]_vars

\* C5 witness: the entry of (w1, 2023-01-01) was cooked from a.log alone
\* (opsSec 100; with b.log it would be 200), b.log of the same workload and
\* day appeared later, and a later invocation has skipped it and written the
\* summary.
C5_Witness ==
    \E p \in SeqProcs :
        /\ pc[p] = "cookWriteRunSummaries"
        /\ "f2" \in skipped[p]
        /\ summaryFile.exists
        /\ "w1" \in DOMAIN summaryFile.data
        /\ \E i \in DOMAIN summaryFile.data["w1"] :
              /\ summaryFile.data["w1"][i].Date = "2023-01-01"
              /\ summaryFile.data["w1"][i].OpsSec = 100

\* C6: cookSummary writes a workload that has cooked entries and no new data
\* with exactly its loaded sequence.
C6_PassThrough ==
    [][\A p \in SeqProcs :
          CookSummaryStep(p) =>
              \A name \in DOMAIN cookedSummaries[p] \ DOMAIN workloads[p] :
                 /\ name \in DOMAIN summaryFile'.data
                 /\ summaryFile'.data[name] = cookedSummaries[p][name]]_vars

\* C6 witness: cookSummary has written a summary in which one workload with two
\* cooked entries had no new data while another workload had.
C6_Witness ==
    \E p \in SeqProcs :
        /\ pc[p] = "cookWriteRunSummaries"
        /\ DOMAIN workloads[p] # {}
        /\ \E name \in DOMAIN cookedSummaries[p] \ DOMAIN workloads[p] :
              Len(cookedSummaries[p][name]) >= 2

\* C7: for a workload with both cooked and newly computed entries, cookSummary
\* writes exactly the entries of both, ordered ascending by date.
C7_MergeExact ==
    [][\A p \in SeqProcs :
          CookSummaryStep(p) =>
              \A name \in DOMAIN cookedSummaries[p] \cap DOMAIN workloads[p] :
                 LET new == cookWriteSummary(workloads[p][name])
                     old == cookedSummaries[p][name]
                     out == summaryFile'.data[name]
                 IN /\ Len(out) = Len(new) + Len(old)
                    /\ \A e \in Range(out) \cup Range(new) \cup Range(old) :
                          Count(out, e) = Count(new, e) + Count(old, e)
                    /\ SortedByDate(out)]_vars

\* C7 witness: cooked dates 2023-01-01 and 2023-01-03, new data for 2023-01-02,
\* written dates 2023-01-01, 2023-01-02, 2023-01-03.
C7_Witness ==
    \E p \in SeqProcs :
        /\ pc[p] = "cookWriteRunSummaries"
        /\ "w1" \in DOMAIN cookedSummaries[p] \cap DOMAIN workloads[p]
        /\ Dates(cookedSummaries[p]["w1"]) = <<"2023-01-01", "2023-01-03">>
        /\ DOMAIN workloads[p]["w1"] = {"2023-01-02"}
        /\ Dates(summaryFile.data["w1"]) = <<"2023-01-01", "2023-01-02", "2023-01-03">>

\* The ops/sec of the passing and of the failing points of the harness run,
\* and the misclassification count of a threshold, stated on the points.
PassIdx == {i \in DOMAIN run.points : run.points[i].passed}

FailIdx == {i \in DOMAIN run.points : ~run.points[i].passed}

Errors(t) ==
    Cardinality({i \in PassIdx : run.points[i].opsSec < t})
        + Cardinality({i \in FailIdx : run.points[i].opsSec >= t})

Candidates == {run.points[i].opsSec : i \in DOMAIN run.points}

\* C8: with passing and failing points both present, opsPerSecSplit returns a
\* value of a point that minimizes the number of misclassified points, the
\* lowest of the minimizing values.
C8_OptimalThreshold ==
    (Len(result) >= 1 /\ PassIdx # {} /\ FailIdx # {}) =>
        /\ result[1] \in Candidates
        /\ \A c \in Candidates :
              /\ Errors(result[1]) <= Errors(c)
              /\ Errors(c) = Errors(result[1]) => result[1] <= c

\* C8 witness: a run with passes and fails for which two candidates tie on the
\* minimal count and the call has returned.
C8_Witness ==
    /\ Len(result) >= 1
    /\ PassIdx # {}
    /\ FailIdx # {}
    /\ \E c \in Candidates : c # result[1] /\ Errors(c) = Errors(result[1])
    /\ \E c \in Candidates : Errors(c) > Errors(result[1])

\* C9: for a run whose points all pass opsPerSecSplit returns the minimum
\* passing value, for one whose points all fail the maximum failing value
\* plus 1; the call returns a number in both cases.
C9_EdgeCases ==
    Len(result) >= 1 =>
        /\ result[1] \in Nat
        /\ FailIdx = {} => result[1] = Min(Candidates)
        /\ PassIdx = {} => result[1] = Max(Candidates) + 1

\* C9 witness: an all-fail run with two different values, reduced.
C9_Witness ==
    /\ Len(result) >= 1
    /\ PassIdx = {}
    /\ Cardinality(Candidates) >= 2

\* C10: for a raw run held in a run, findOptimalSplit is executed once: once
\* cookSummary has called opsPerSecSplit on it through summarize, the later
\* call from formatSummaryJSON finds the split cached and does not execute
\* findOptimalSplit again.
C10_ComputedOnce ==
    \A p \in Procs :
        pc[p] = "cookWriteRunSummaries" => TreeReducerRan(workloads[p]) = {}

\* C11: summarize returns as opsSec the sum of the raw runs' split values
\* divided by their number, truncated, and as writeAmp the mean of the raw
\* runs' last write amplifications rounded to the nearest hundredth (halves
\* rounded up).
C11_Averages ==
    Len(result) >= 1 =>
        LET paths == DOMAIN input.rawRuns
            l == Cardinality(paths)
            ops == SumOver([q \in paths |-> opsPerSecSplit(input.rawRuns[q]).ret], paths)
            amps == SumOver([q \in paths |->
                        input.rawRuns[q].points[Len(input.rawRuns[q].points)].writeAmp],
                        paths)
            s == result[1]
        IN /\ s.OpsSec * l <= ops
           /\ ops < (s.OpsSec + 1) * l
           /\ 2 * l * s.WriteAmp <= 2 * amps + l
           /\ 2 * amps + l < 2 * l * (s.WriteAmp + 1)

\* C11 witness: split values 1000 and 1200 and write amplifications 2.00 and
\* 3.00 have given opsSec 1100 and writeAmp 2.50.
C11_Witness ==
    /\ Len(result) >= 1
    /\ Cardinality(DOMAIN input.rawRuns) = 2
    /\ {opsPerSecSplit(input.rawRuns[q]).ret : q \in DOMAIN input.rawRuns} = {1000, 1200}
    /\ {writeAmp(input.rawRuns[q]) : q \in DOMAIN input.rawRuns} = {200, 300}
    /\ result[1].OpsSec = 1100
    /\ result[1].WriteAmp = 250

\* A tree in which every workload has a run, every run a raw run and every
\* raw run a datapoint.
NoEmptyNode(wl) ==
    \A name \in DOMAIN wl :
        /\ DOMAIN wl[name] # {}
        /\ \A day \in DOMAIN wl[name] :
              /\ DOMAIN wl[name][day].rawRuns # {}
              /\ \A q \in DOMAIN wl[name][day].rawRuns :
                    Len(wl[name][day].rawRuns[q].points) >= 1

\* C12: after every call of addRawRun each raw run of the tree has at least
\* one datapoint, each run at least one raw run and each workload at least one
\* run; a call with a raw run without datapoints leaves the tree as it was.
C12_NoEmptyRuns ==
    [][input' # NoInput =>
          /\ \A p \in Procs : NoEmptyNode(workloads'[p])
          /\ Len(input'.call.raw.points) = 0 => workloads' = workloads]_vars

\* C12 witness: a raw run without datapoints was offered under a workload name
\* the tree does not have, and the tree, which has other runs, still lacks it.
C12_Witness ==
    /\ input # NoInput
    /\ Len(input.call.raw.points) = 0
    /\ workloads[1] # EmptyMap
    /\ input.call.name \notin DOMAIN workloads[1]

\* C15: a call of addRawRun with a raw run that has datapoints stores it
\* under (name, day, path) in place of whatever was there, adds the run and
\* the workload if they were missing, and changes nothing else: every other
\* raw run, the name, date and dir of an existing run, every other run.
C15_ReplaceOnly ==
    [][(input' # NoInput /\ Len(input'.call.raw.points) > 0) =>
          LET c == input'.call
              p == input'.slot
              old == workloads[p]
              new == workloads'[p]
              k == <<c.name, c.path[1]>>
          IN /\ \A q \in Procs \ {p} : workloads'[q] = workloads[q]
             /\ RunsOf(new) = RunsOf(old) \cup {k}
             /\ RunAt(new, k).rawRuns[c.path] = c.raw
             /\ \A k2 \in RunsOf(old) \ {k} : RunAt(new, k2) = RunAt(old, k2)
             /\ k \in RunsOf(old) =>
                   /\ RunAt(new, k).name = RunAt(old, k).name
                   /\ RunAt(new, k).date = RunAt(old, k).date
                   /\ RunAt(new, k).dir = RunAt(old, k).dir
                   /\ DOMAIN RunAt(new, k).rawRuns =
                          DOMAIN RunAt(old, k).rawRuns \cup {c.path}
                   /\ \A q \in DOMAIN RunAt(old, k).rawRuns \ {c.path} :
                          RunAt(new, k).rawRuns[q] = RunAt(old, k).rawRuns[q]
             /\ k \notin RunsOf(old) => DOMAIN RunAt(new, k).rawRuns = {c.path}]_vars

\* C15 witness: the call found another raw run under its key, the tree now
\* holds the raw run of the call there, and it has another run as well.
C15_Witness ==
    /\ input # NoInput
    /\ input.held # <<>>
    /\ input.held # <<input.call.raw>>
    /\ HeldAt(workloads[input.slot], input.call) = <<input.call.raw>>
    /\ Cardinality(RunsOf(workloads[input.slot])) >= 2

\* C20: the run stored under workload key w and day key d has name w and
\* date d, and cookWriteSummary of a workload returns one entry per day key,
\* each with the name and the date of its run.
C20_KeysMatch ==
    \A p \in Procs : \A w \in DOMAIN workloads[p] :
        LET s == cookWriteSummary(workloads[p][w])
        IN /\ \A d \in DOMAIN workloads[p][w] :
                  /\ workloads[p][w][d].name = w
                  /\ workloads[p][w][d].date = d
                  /\ Cardinality({i \in DOMAIN s : s[i].Date = d}) = 1
           /\ \A i \in DOMAIN s :
                 /\ s[i].Name = w
                 /\ s[i].Date \in DOMAIN workloads[p][w]

\* C20 witness: a workload named differently from the directory of its files
\* has runs on two days.
C20_Witness ==
    /\ "w2" \in DOMAIN workloads[1]
    /\ Cardinality(DOMAIN workloads[1]["w2"]) = 2

\* The (name, day, path, raw run) tuples a tree holds.
Content(wl) ==
    UNION {{<<k[1], k[2], q, RunAt(wl, k).rawRuns[q]>> :
               q \in DOMAIN RunAt(wl, k).rawRuns} : k \in RunsOf(wl)}

\* C17: two loaders that received the same tuples, in whatever order each,
\* give every run the same summary (name, date, opsSec, summaryPath) and the
\* same path for its per-run file.
C17_OrderIndependent ==
    Content(workloads[1]) = Content(workloads[2]) =>
        \A k \in RunsOf(workloads[1]) :
            LET s1 == summarize(RunAt(workloads[1], k))
                s2 == summarize(RunAt(workloads[2], k))
            IN /\ s1.Name = s2.Name
               /\ s1.Date = s2.Date
               /\ s1.OpsSec = s2.OpsSec
               /\ s1.SummaryPath = s2.SummaryPath
               /\ runSummaryFilename(RunAt(workloads[1], k)) =
                      runSummaryFilename(RunAt(workloads[2], k))

\* A line that yields a datapoint: tagged, scanned in full, duration parsed.
WellFormed(line) == line.tag /\ line.scanOK /\ line.elapsedMs >= 0

\* The datapoints of the well-formed lines, in the order of the lines.
GoodPoints(lines) ==
    LET good == SelectSeq(lines, WellFormed)
    IN [i \in DOMAIN good |-> PointOf(good[i])]

\* C13: the raw run built from a file holds the datapoints of exactly the
\* well-formed lines of the file, in file order, whatever rejected lines lie
\* between them; a file that is not skipped and has a well-formed line gets
\* a raw run.
C13_RejectedLinesSkipped ==
    Len(result) >= 1 =>
        /\ \A k \in RunsOf(workloads[1]) :
              \A q \in DOMAIN RunAt(workloads[1], k).rawRuns :
                  RunAt(workloads[1], k).rawRuns[q].points = GoodPoints(input.lines)
        /\ (~result[1] /\ GoodPoints(input.lines) # <<>>) =>
              \E k \in RunsOf(workloads[1]) :
                  input.path \in DOMAIN RunAt(workloads[1], k).rawRuns

\* C13 witness: a tagged line that was rejected lies between two well-formed
\* lines, and the raw run of the file holds the datapoints of both.
C13_Witness ==
    /\ Len(result) >= 1
    /\ Len(input.lines) = 3
    /\ WellFormed(input.lines[1])
    /\ input.lines[2].tag /\ ~WellFormed(input.lines[2])
    /\ WellFormed(input.lines[3])
    /\ \E k \in RunsOf(workloads[1]) :
          Len(RunAt(workloads[1], k).rawRuns[input.path].points) = 2

\* C16: the name under which a file is looked up in the cooked set and filed
\* in the tree is the name of its first well-formed line: the file is skipped
\* exactly if that line exists and its (name, day) is cooked, and a raw run
\* built from the file is stored under that name.
C16_NameOfFirstSample ==
    Len(result) >= 1 =>
        LET good == SelectSeq(input.lines, WellFormed)
        IN /\ result[1] <=>
                 /\ good # <<>>
                 /\ <<good[1].name, input.path[1]>> \in input.cookedSet
           /\ \A k \in RunsOf(workloads[1]) : k[1] = good[1].name

\* C14: toSlice of a snapshotList returns the sequence numbers of the
\* snapshots pushed with pushBack since init, in the order of the pushes; of
\* a list without snapshots it returns nothing.
C14_InsertionOrder == Len(result) >= 1 => result[1] = input

\* C14 witness: 3, 2, 1 were pushed in this order and toSlice returned 3, 2, 1.
C14_Witness == input = <<3, 2, 1>> /\ result = <<(<<3, 2, 1>>)>>

\* C18: when cookWriteRunSummaries returns, the per-run file at the output
\* path of each run of the tree lists exactly the paths of the raw runs of
\* that run.
C18_OneFilePerRun ==
    [][\A p \in Procs :
          (pc[p] = "cookWriteRunSummaries" /\ pc'[p] # "cookWriteRunSummaries") =>
              \A k \in RunsOf(workloads[p]) :
                  LET r == RunAt(workloads[p], k)
                  IN /\ runSummaryFilename(r) \in DOMAIN detailFiles'
                     /\ DOMAIN detailFiles'[runSummaryFilename(r)] = DOMAIN r.rawRuns]_vars

\* C19: when loadCooked finds a summary.json that does not decode, parseWrite
\* returns the error at once: summary.json and the per-run files stay as they
\* are, the cooked set of the loader stays empty and its tree stays empty;
\* loadRaw, cookSummary and cookWriteRunSummaries run only in an invocation
\* whose loadCooked found no such file.
C19_MalformedSummaryFatal ==
    [][\A p \in Procs :
          /\ (/\ pc[p] = "loadCooked"
              /\ summaryFile.exists /\ ~summaryFile.valid
              /\ pc'[p] # "loadCooked") =>
                 /\ pc'[p] = "failed"
                 /\ summaryFile' = summaryFile
                 /\ detailFiles' = detailFiles
                 /\ cooked'[p] = {}
                 /\ cookedSummaries'[p] = EmptyMap
                 /\ workloads'[p] = EmptyMap
          /\ pc'[p] \in {"loadRaw", "cookSummary", "cookWriteRunSummaries"} =>
                 (summaryFile.exists => summaryFile.valid)]_vars

\* C19 witness: an invocation has returned the error of a summary.json that
\* does not decode, with raw files and per-run files of an earlier invocation
\* in place.
C19_Witness ==
    /\ pc[1] = "failed"
    /\ summaryFile.exists /\ ~summaryFile.valid
    /\ dataFiles # {}
    /\ detailFiles # EmptyMap

\* C21: whenever no invocation is running, whether the last one returned
\* normally or with the error of a per-run file it could not write, every
\* entry of the top-level summary on disk has a per-run file at its
\* summaryPath.
C21_DetailOnDisk ==
    Quiescent =>
        \A name \in DOMAIN summaryFile.data :
            \A i \in DOMAIN summaryFile.data[name] :
                summaryFile.data[name][i].SummaryPath \in DOMAIN detailFiles

\* The (workload, date) pairs of a top-level summary.
PairsOf(data) ==
    UNION {{<<name, data[name][i].Date>> : i \in DOMAIN data[name]} :
              name \in DOMAIN data}

\* C22: under sequential invocations that all succeed, no step takes a
\* (workload, date) pair out of the top-level summary on disk, and the summary
\* cookSummary writes has every pair of the summary loadCooked loaded, whether
\* or not the raw files of the pair are still in the input directory.
C22_PairsNeverShrink ==
    [][/\ PairsOf(summaryFile.data) \subseteq PairsOf(summaryFile'.data)
       /\ \A p \in Procs :
             CookSummaryStep(p) =>
                 PairsOf(cookedSummaries[p]) \subseteq PairsOf(summaryFile'.data)]_vars

\* C22 witness: cookSummary has written a summary that still has the pair
\* (w1, 2023-01-01) although the input directory, which is not empty, no
\* longer has any file of that workload and day.
C22_Witness ==
    \E p \in SeqProcs :
        /\ pc[p] = "cookWriteRunSummaries"
        /\ InSummary("w1", "2023-01-01")
        /\ dataFiles # {}
        /\ \A f \in dataFiles :
              ~(NameIn(f) = "w1" /\ FileTable[f].path[1] = "2023-01-01")

====
